---- MODULE Spec2Model ----
(***************************************************************************)
(* git-agecrypt: the credential getter chain (src/main.rs) and the         *)
(* identity / recipient resolution and cipher gateway (src/age.rs).        *)
(*                                                                         *)
(* One run of the process is  main: resolve_passphrase, then run(args,ctx) *)
(* which executes one command built on the functions of age.rs.            *)
(***************************************************************************)
EXTENDS Naturals, Sequences, FiniteSets, TLC

(* ------------------------------ bounds -------------------------------- *)
\* longest list of identity paths handed to decrypt / load_identities
MaxPaths == 2
\* longest list of recipient strings handed to load_public_keys
MaxKeys == 2
\* longest standard output (in bytes) of a passphrase getter command
MaxOut == 2

(* ------------------------------ values -------------------------------- *)
\* Option<T>: None is the empty sequence, Some(x) the one-element sequence.
None == <<>>
Some(x) == <<x>>
IsSome(o) == Len(o) = 1
Unwrap(o) == o[1]

SeqsUpTo(S, n) == UNION {[1..k -> S] : k \in 0..n}

\* Bytes a command can write: a printable character, a whitespace
\* character, and a byte that is not valid UTF-8.
\* (No NUL byte, on which env::set_var panics.)
WS == " "
BadByte == "bad"
Bytes == {"a", WS, BadByte}

\* Errors carry the message (by name) and what the message interpolates.
Error(msg, path, key, source) ==
    [msg |-> msg, path |-> path, key |-> key, source |-> source,
     recipient |-> None]
NoError == Error("", 0, None, None)

(* -------------------- configuration collaborator ----------------------- *)
\* The [passphrase] table is a set of keys; the command of a key is opaque
\* and identified by its key.
has_passphrase_key(cfg, key) == key \in cfg
get_passphrase_command(cfg, key) == IF key \in cfg THEN Some(key) ELSE None

(* ----------------------- credential getter chain ---------------------- *)
GetterSource == {"Arg", "EnvVar", "ImplicitSops"}

\* main.rs 58-84: (getter_key, source), or the early return on an empty
\* AGE_PASSPHRASE_GETTER.
select_getter_env_first(arg, env, cfg) ==
    IF IsSome(env) /\ Unwrap(env) # ""
    THEN [early |-> FALSE, key |-> env, source |-> Some("EnvVar")]
    ELSE IF IsSome(arg)
    THEN [early |-> FALSE, key |-> arg, source |-> Some("Arg")]
    ELSE IF IsSome(env)
    THEN [early |-> TRUE, key |-> None, source |-> None]
    ELSE IF has_passphrase_key(cfg, "sops")
    THEN [early |-> FALSE, key |-> Some("sops"), source |-> Some("ImplicitSops")]
    ELSE [early |-> FALSE, key |-> None, source |-> None]

select_getter(arg, env, cfg) ==
    IF IsSome(arg)
    THEN [early |-> FALSE, key |-> arg, source |-> Some("Arg")]
    ELSE IF IsSome(env)
    THEN IF Unwrap(env) = ""
         THEN [early |-> TRUE, key |-> None, source |-> None]
         ELSE [early |-> FALSE, key |-> env, source |-> Some("EnvVar")]
    ELSE IF has_passphrase_key(cfg, "sops")
    THEN [early |-> FALSE, key |-> Some("sops"), source |-> Some("ImplicitSops")]
    ELSE [early |-> FALSE, key |-> None, source |-> None]

\* main.rs 90-96: the command of the chosen key, or the configuration error.
lookup_command_fallback(cfg, key, source) ==
    IF IsSome(get_passphrase_command(cfg, key))
    THEN [ok |-> TRUE, command |-> get_passphrase_command(cfg, key), err |-> NoError]
    ELSE IF has_passphrase_key(cfg, "sops")
    THEN [ok |-> TRUE, command |-> Some("sops"), err |-> NoError]
    ELSE [ok |-> FALSE, command |-> None,
          err |-> Error("GetterNotFound", 0, Some(key), Some(source))]

lookup_command(cfg, key, source) ==
    IF IsSome(get_passphrase_command(cfg, key))
    THEN [ok |-> TRUE, command |-> get_passphrase_command(cfg, key), err |-> NoError]
    ELSE [ok |-> FALSE, command |-> None,
          err |-> Error("GetterNotFound", 0, Some(key), Some(source))]

\* String::from_utf8 (main.rs 124): fails on any byte that is not UTF-8.
from_utf8(bytes) ==
    IF \E i \in 1..Len(bytes) : bytes[i] = BadByte THEN None ELSE Some(bytes)

\* str::trim (main.rs 132): drops leading and trailing whitespace.
RECURSIVE trim_start(_)
trim_start(s) ==
    IF s # <<>> /\ Head(s) = WS THEN trim_start(Tail(s)) ELSE s
RECURSIVE trim_end(_)
trim_end(s) ==
    IF s # <<>> /\ s[Len(s)] = WS THEN trim_end(SubSeq(s, 1, Len(s) - 1)) ELSE s
trim(s) == trim_end(trim_start(s))

\* main.rs 113-141: from the finished command to the passphrase.
sanitize_no_trim(exec, command, source) ==
    IF exec.exit # 0
    THEN [ok |-> FALSE, passphrase |-> None,
          err |-> Error("CommandFailed", 0, None, Some(source))]
    ELSE IF from_utf8(exec.stdout) = None
    THEN [ok |-> FALSE, passphrase |-> None,
          err |-> Error("OutputNotUtf8", 0, None, Some(source))]
    ELSE IF Unwrap(from_utf8(exec.stdout)) = <<>>
    THEN [ok |-> FALSE, passphrase |-> None,
          err |-> Error("EmptyOutput", 0, None, Some(source))]
    ELSE [ok |-> TRUE, passphrase |-> from_utf8(exec.stdout), err |-> NoError]

sanitize(exec, command, source) ==
    IF exec.exit # 0
    THEN [ok |-> FALSE, passphrase |-> None,
          err |-> Error("CommandFailed", 0, None, Some(source))]
    ELSE IF from_utf8(exec.stdout) = None
    THEN [ok |-> FALSE, passphrase |-> None,
          err |-> Error("OutputNotUtf8", 0, None, Some(source))]
    ELSE IF trim(Unwrap(from_utf8(exec.stdout))) = <<>>
    THEN [ok |-> FALSE, passphrase |-> None,
          err |-> Error("EmptyOutput", 0, None, Some(source))]
    ELSE [ok |-> TRUE, passphrase |-> Some(trim(Unwrap(from_utf8(exec.stdout)))),
          err |-> NoError]

\* What `sh -c command` does: it cannot be spawned, or it runs to an exit
\* status with its captured standard output.
NoExec == [spawned |-> FALSE, exit |-> 0, stdout |-> <<>>]
Execs == {NoExec} \cup
    [spawned : {TRUE}, exit : {0, 1}, stdout : SeqsUpTo(Bytes, MaxOut)]

\* main.rs 47-150. `loads` is the outcome of AppConfig::load (line 49).
\* The result names the chosen key and source, whether the command was run
\* (and what it did), and the passphrase to publish, if any.
GetterResult(ok, sel, ran, exec, publish, err) ==
    [called |-> TRUE, ok |-> ok, key |-> sel.key, source |-> sel.source,
     ran |-> ran, exec |-> exec, publish |-> publish, err |-> err]
NotSelected == [early |-> FALSE, key |-> None, source |-> None]

resolve_passphrase(arg, env, loads, cfg, exec) ==
    IF ~loads
    THEN GetterResult(FALSE, NotSelected, FALSE, NoExec, None,
                      Error("ConfigLoad", 0, None, None))
    ELSE LET sel == select_getter(arg, env, cfg) IN
    IF sel.early \/ ~IsSome(sel.key)
    THEN GetterResult(TRUE, sel, FALSE, NoExec, None, NoError)
    ELSE LET cmd == lookup_command(cfg, Unwrap(sel.key), Unwrap(sel.source)) IN
    IF ~cmd.ok
    THEN GetterResult(FALSE, sel, FALSE, NoExec, None, cmd.err)
    ELSE IF ~exec.spawned
    THEN GetterResult(FALSE, sel, FALSE, NoExec, None,
                      Error("FailedToExecute", 0, None, sel.source))
    ELSE LET p == sanitize(exec, Unwrap(cmd.command), Unwrap(sel.source)) IN
         GetterResult(p.ok, sel, TRUE, exec, p.passphrase, p.err)

(* ------------------------- identity files ----------------------------- *)
\* What a path on disk holds, by what the age library makes of it:
\*   unreadable  File::open and IdentityFile::from_file both fail
\*   garbage     readable, neither an identity file nor an age container
\*   plain       a plaintext identity file: native keys ("k1") and plugin
\*               identities ("plug"); pluginsOk says the plugin binaries of
\*               its plugin identities are installed
\*   x25519box   an age container that is not passphrase-encrypted
\*   scryptbox   an age container encrypted to the passphrase `pass`,
\*               wrapping `inner`
Plain(ids, pluginsOk) == [kind |-> "plain", ids |-> ids, pluginsOk |-> pluginsOk]
Opaque(kind) == [kind |-> kind, ids |-> <<>>, pluginsOk |-> TRUE]
NoContent == Opaque("none")

PlainContents ==
    {Plain(<<>>, TRUE), Plain(<<"k1">>, TRUE), Plain(<<"plug">>, TRUE),
     Plain(<<"plug">>, FALSE)}
\* What a passphrase-encrypted container can wrap: an identity file, bytes
\* that are not UTF-8, another (armored) passphrase-encrypted container, or
\* a payload that fails to decrypt when read.
InnerContents ==
    {Plain(<<"k1">>, TRUE), Plain(<<"plug">>, FALSE),
     Opaque("notutf8"), Opaque("nested"), Opaque("corrupt")}

FilePass == <<"a">>
IdFile(kind, content, inner) ==
    [kind |-> kind, content |-> content, pass |-> FilePass, inner |-> inner]
Files ==
    {IdFile("unreadable", NoContent, NoContent),
     IdFile("garbage", NoContent, NoContent),
     IdFile("x25519box", NoContent, NoContent)}
    \cup {IdFile("plain", c, NoContent) : c \in PlainContents}
    \cup {IdFile("scryptbox", NoContent, i) : i \in InnerContents}

\* The values AGE_PASSPHRASE has when the process starts: unset, the
\* passphrase of the files, a wrong one, the empty string.
\* env::var gives Err both for an unset variable and for a value that is
\* not Unicode; None stands for both.
Credentials == {None, Some(<<"a">>), Some(<<"a", "a">>), Some(<<>>)}

\* IdentityFile::from_file (age.rs 103, 217): the parsed file, or None.
IdentityFile_from_file(f) == IF f.kind = "plain" THEN Some(f.content) ELSE None
\* IdentityFile::from_buffer (age.rs 143, 255) on the decrypted text.
IdentityFile_from_buffer(c) == IF c.kind = "plain" THEN Some(c) ELSE None
\* into_identities (age.rs 105-108): fails on a plugin identity whose
\* plugin is missing; IdentityCallbacks is stored, not called.
into_identities(c) == IF c.pluginsOk THEN Some(c.ids) ELSE None
\* File::open (age.rs 114, 227)
File_open(f) == f.kind # "unreadable"
\* Decryptor::new on an identity file (age.rs 119, 232)
Decryptor_new_file(f) ==
    IF f.kind = "scryptbox" THEN "scrypt"
    ELSE IF f.kind = "x25519box" THEN "recipients"
    ELSE "error"

LoadResult(ok, ids, err, reads) ==
    [ok |-> ok, ids |-> ids, err |-> err, reads |-> reads]

\* age.rs 129-151 (and 243-261): decrypt the container with the passphrase
\* and parse what it wraps.  `reads` counts the reads of AGE_PASSPHRASE.
unwrap_identity_file(p, f, passphrase, reads) ==
    IF passphrase # f.pass
    THEN LoadResult(FALSE, <<>>, Error("DecryptionFailed", 0, None, None), reads)
    ELSE IF f.inner.kind = "corrupt"
    THEN LoadResult(FALSE, <<>>, Error("Io", 0, None, None), reads)
    ELSE IF f.inner.kind = "notutf8"
    THEN LoadResult(FALSE, <<>>, Error("DecryptedNotUtf8", p, None, None), reads)
    ELSE IF IdentityFile_from_buffer(f.inner) = None
    THEN LoadResult(FALSE, <<>>, Error("FailedToParseDecrypted", p, None, None), reads)
    ELSE IF into_identities(f.inner) = None
    THEN LoadResult(FALSE, <<>>, Error("FailedToLoadDecrypted", p, None, None), reads)
    ELSE LoadResult(TRUE, Unwrap(into_identities(f.inner)), NoError, reads)

\* age.rs 98-153: the body of the loop of load_identities for one path.
load_path_credential_first(p, f, cred) ==
    IF cred = None
    THEN LoadResult(FALSE, <<>>, Error("PassphraseNotSet", p, None, None), 1)
    ELSE IF IdentityFile_from_file(f) # None
    THEN IF into_identities(f.content) = None
         THEN LoadResult(FALSE, <<>>, Error("FailedToParseIdentities", p, None, None), 1)
         ELSE LoadResult(TRUE, Unwrap(into_identities(f.content)), NoError, 1)
    ELSE IF ~File_open(f)
    THEN LoadResult(FALSE, <<>>, Error("FailedToOpen", p, None, None), 1)
    ELSE IF Decryptor_new_file(f) = "recipients"
    THEN LoadResult(FALSE, <<>>, Error("NotPassphraseEncrypted", p, None, None), 1)
    ELSE IF Decryptor_new_file(f) = "error"
    THEN LoadResult(FALSE, <<>>, Error("FailedToParseEncrypted", p, None, None), 1)
    ELSE unwrap_identity_file(p, f, Unwrap(cred), 1)

load_path_empty_passphrase(p, f, cred) ==
    IF IdentityFile_from_file(f) # None
    THEN IF into_identities(f.content) = None
         THEN LoadResult(FALSE, <<>>, Error("FailedToParseIdentities", p, None, None), 0)
         ELSE LoadResult(TRUE, Unwrap(into_identities(f.content)), NoError, 0)
    ELSE IF ~File_open(f)
    THEN LoadResult(FALSE, <<>>, Error("FailedToOpen", p, None, None), 0)
    ELSE IF Decryptor_new_file(f) = "recipients"
    THEN LoadResult(FALSE, <<>>, Error("NotPassphraseEncrypted", p, None, None), 0)
    ELSE IF Decryptor_new_file(f) = "error"
    THEN LoadResult(FALSE, <<>>, Error("FailedToParseEncrypted", p, None, None), 0)
    ELSE unwrap_identity_file(p, f, IF cred = None THEN <<>> ELSE Unwrap(cred), 1)

load_path(p, f, cred) ==
    IF IdentityFile_from_file(f) # None
    THEN IF into_identities(f.content) = None
         THEN LoadResult(FALSE, <<>>, Error("FailedToParseIdentities", p, None, None), 0)
         ELSE LoadResult(TRUE, Unwrap(into_identities(f.content)), NoError, 0)
    ELSE IF ~File_open(f)
    THEN LoadResult(FALSE, <<>>, Error("FailedToOpen", p, None, None), 0)
    ELSE IF Decryptor_new_file(f) = "recipients"
    THEN LoadResult(FALSE, <<>>, Error("NotPassphraseEncrypted", p, None, None), 0)
    ELSE IF Decryptor_new_file(f) = "error"
    THEN LoadResult(FALSE, <<>>, Error("FailedToParseEncrypted", p, None, None), 0)
    ELSE IF cred = None
    THEN LoadResult(FALSE, <<>>, Error("PassphraseNotSet", p, None, None), 1)
    ELSE unwrap_identity_file(p, f, Unwrap(cred), 1)

\* age.rs 95-157: the paths in order, stopping at the first error.  `log`
\* keeps the outcome of every path that was processed.
RECURSIVE load_identities_from(_, _, _, _, _, _)
load_identities_from(paths, cred, i, ids, reads, log) ==
    IF i > Len(paths)
    THEN [ok |-> TRUE, ids |-> ids, err |-> NoError, reads |-> reads, log |-> log]
    ELSE LET r == load_path(i, paths[i], cred) IN
         IF ~r.ok
         THEN [ok |-> FALSE, ids |-> <<>>, err |-> r.err,
               reads |-> reads + r.reads, log |-> Append(log, r)]
         ELSE load_identities_from(paths, cred, i + 1, ids \o r.ids,
                                   reads + r.reads, Append(log, r))

load_identities(paths, cred) == load_identities_from(paths, cred, 1, <<>>, 0, <<>>)

\* age.rs 212-272.  val is the Option<String> of an Ok result.
ValidateResult(ok, val, err, reads) ==
    [ok |-> ok, val |-> val, err |-> err, reads |-> reads]

validate_identity_note_on_failure(p, f, cred) ==
    IF IdentityFile_from_file(f) # None
    THEN IF into_identities(f.content) = None
         THEN ValidateResult(FALSE, None, Error("FailedToParseIdentity", p, None, None), 0)
         ELSE ValidateResult(TRUE, None, NoError, 0)
    ELSE IF ~File_open(f)
    THEN ValidateResult(FALSE, None, Error("FailedToOpen", p, None, None), 0)
    ELSE IF Decryptor_new_file(f) = "recipients"
    THEN ValidateResult(FALSE, None, Error("NotPassphraseEncrypted", p, None, None), 0)
    ELSE IF Decryptor_new_file(f) = "error"
    THEN ValidateResult(FALSE, None, Error("NeitherPlaintextNorEncrypted", p, None, None), 0)
    ELSE IF cred = None \/ ~unwrap_identity_file(p, f, Unwrap(cred), 1).ok
    THEN ValidateResult(TRUE, Some("NotTested"), NoError, 1)
    ELSE ValidateResult(TRUE, None, NoError, 1)

validate_identity(p, f, cred) ==
    IF IdentityFile_from_file(f) # None
    THEN IF into_identities(f.content) = None
         THEN ValidateResult(FALSE, None, Error("FailedToParseIdentity", p, None, None), 0)
         ELSE ValidateResult(TRUE, None, NoError, 0)
    ELSE IF ~File_open(f)
    THEN ValidateResult(FALSE, None, Error("FailedToOpen", p, None, None), 0)
    ELSE IF Decryptor_new_file(f) = "recipients"
    THEN ValidateResult(FALSE, None, Error("NotPassphraseEncrypted", p, None, None), 0)
    ELSE IF Decryptor_new_file(f) = "error"
    THEN ValidateResult(FALSE, None, Error("NeitherPlaintextNorEncrypted", p, None, None), 0)
    ELSE IF cred = None
    THEN ValidateResult(TRUE, Some("NotTested"), NoError, 1)
    ELSE LET r == unwrap_identity_file(p, f, Unwrap(cred), 1) IN
         IF r.ok
         THEN ValidateResult(TRUE, None, NoError, 1)
         ELSE ValidateResult(FALSE, None,
                  IF r.err.msg = "DecryptionFailed"
                  THEN Error("FailedToDecryptWithPassphrase", p, None, None)
                  ELSE r.err, 1)

(* ------------------------- recipient strings -------------------------- *)
\* A recipient string, by the one parser of the age library that accepts
\* it (the formats are disjoint), or by why none does.
RecipientString(kind, plugin, id) == [kind |-> kind, plugin |-> plugin, id |-> id]
PluginNames == {"yubikey", "tpm"}
RecipientStrings ==
    {RecipientString("x25519", "", "k1"),
     RecipientString("ssh", "", "k2"),
     RecipientString("plugin", "yubikey", "y1"),
     RecipientString("plugin", "yubikey", "y2"),
     RecipientString("plugin", "tpm", "t1"),
     RecipientString("empty", "", ""),
     RecipientString("badchecksum", "", "k1"),
     RecipientString("unknownprefix", "", "")}

\* str::parse::<age::x25519::Recipient> (age.rs 185)
parse_x25519(s) == IF s.kind = "x25519" THEN Some(s) ELSE None
\* str::parse::<age::ssh::Recipient> (age.rs 187)
parse_ssh(s) == IF s.kind = "ssh" THEN Some(s) ELSE None
\* str::parse::<plugin::Recipient> (age.rs 189)
parse_plugin(s) == IF s.kind = "plugin" THEN Some(s) ELSE None

\* A recipient object: its variant, and the recipient strings it wraps to.
RecipientObject(variant, plugin, strings) ==
    [variant |-> variant, plugin |-> plugin, strings |-> strings]

InvalidRecipient ==
    [msg |-> "InvalidRecipient", path |-> 0, key |-> None, source |-> None,
     recipient |-> None]

\* age.rs 184-194: classify every string, in order.
RECURSIVE classify_public_keys(_, _, _, _)
classify_public_keys(keys, i, recipients, plugin_recipients) ==
    IF i > Len(keys)
    THEN [ok |-> TRUE, recipients |-> recipients,
          plugin_recipients |-> plugin_recipients, err |-> NoError]
    ELSE IF parse_x25519(keys[i]) # None
    THEN classify_public_keys(keys, i + 1,
             Append(recipients, RecipientObject("x25519", "", <<keys[i]>>)),
             plugin_recipients)
    ELSE IF parse_ssh(keys[i]) # None
    THEN classify_public_keys(keys, i + 1,
             Append(recipients, RecipientObject("ssh", "", <<keys[i]>>)),
             plugin_recipients)
    ELSE IF parse_plugin(keys[i]) # None
    THEN classify_public_keys(keys, i + 1, recipients,
                              Append(plugin_recipients, keys[i]))
    ELSE [ok |-> FALSE, recipients |-> <<>>, plugin_recipients |-> <<>>,
          err |-> InvalidRecipient]

\* RecipientPluginV1::new (age.rs 197): needs the plugin's binary; keeps the
\* recipients of that plugin.
StringsOfPlugin(plugin_recipients, name) ==
    SelectSeq(plugin_recipients, LAMBDA r : r.plugin = name)

\* age.rs 196-199: one iteration for every element of plugin_recipients.
RECURSIVE build_plugin_recipients(_, _, _, _)
build_plugin_recipients(plugin_recipients, installed, i, recipients) ==
    IF i > Len(plugin_recipients)
    THEN [ok |-> TRUE, val |-> recipients, err |-> NoError]
    ELSE IF plugin_recipients[i].plugin \notin installed
    THEN [ok |-> FALSE, val |-> <<>>, err |-> Error("MissingPlugin", 0, None, None)]
    ELSE build_plugin_recipients(plugin_recipients, installed, i + 1,
             Append(recipients,
                    RecipientObject("plugin", plugin_recipients[i].plugin,
                        StringsOfPlugin(plugin_recipients,
                                        plugin_recipients[i].plugin))))

\* age.rs 180-202.  `installed` is the set of plugins whose binary is found.
load_public_keys(keys, installed) ==
    LET c == classify_public_keys(keys, 1, <<>>, <<>>) IN
    IF ~c.ok
    THEN [ok |-> FALSE, val |-> <<>>, err |-> c.err]
    ELSE build_plugin_recipients(c.plugin_recipients, installed, 1, c.recipients)

\* age.rs 204-207
validate_public_keys(keys, installed) ==
    LET r == load_public_keys(keys, installed) IN
    [ok |-> r.ok, val |-> <<>>, err |-> r.err]

(* ---------------------------- cipher gateway -------------------------- *)
\* The input of decrypt, by what Decryptor::new makes of it.  A container
\* ("box") is encrypted to the identities `rcpts`; payloadOk says its
\* payload reads to the end.
Ciphertext(kind, rcpts, payloadOk) ==
    [kind |-> kind, rcpts |-> rcpts, payloadOk |-> payloadOk, body |-> "m"]
NotContainerKinds == {"empty", "truncated", "garbage"}
Ciphertexts ==
    {Ciphertext(k, {}, TRUE) :
        k \in NotContainerKinds \cup {"ioerror", "unknownformat", "scrypt"}}
    \cup {Ciphertext("box", {"k1"}, TRUE), Ciphertext("box", {"k1"}, FALSE),
          Ciphertext("box", {"k2"}, TRUE), Ciphertext("box", {"plug"}, TRUE)}

\* Decryptor::new(ArmoredReader::new(encrypted)) (age.rs 64)
Decryptor_new(ct) ==
    CASE ct.kind \in {"empty", "truncated"} -> "IoUnexpectedEof"
      [] ct.kind = "garbage" -> "InvalidHeader"
      [] ct.kind = "ioerror" -> "IoOther"
      [] ct.kind = "unknownformat" -> "UnknownFormat"
      [] OTHER -> "Ok"

DecryptResult(ok, val, err, load, reads) ==
    [ok |-> ok, val |-> val, err |-> err, load |-> load, reads |-> reads]

\* age.rs 57-93.  `asks`: a plugin identity that is tried asks for a
\* passphrase through IdentityCallbacks::request_passphrase (age.rs 35-37),
\* which reads AGE_PASSPHRASE.
decrypt(identities, ct, cred, asks) ==
    LET id == load_identities(identities, cred)
        d == Decryptor_new(ct)
        tried == {id.ids[i] : i \in 1..Len(id.ids)}
        cb == IF asks /\ "plug" \in tried THEN 1 ELSE 0
    IN
    IF ~id.ok
    THEN DecryptResult(FALSE, None, id.err, id.log, id.reads)
    ELSE IF d = "Ok" /\ ct.kind = "scrypt"
    THEN DecryptResult(FALSE, None,
             Error("PassphraseEncryptedNotSupported", 0, None, None),
             id.log, id.reads)
    ELSE IF d \in {"InvalidHeader", "IoUnexpectedEof"}
    THEN DecryptResult(TRUE, None, NoError, id.log, id.reads)
    ELSE IF d = "IoOther"
    THEN DecryptResult(FALSE, None, Error("Io", 0, None, None), id.log, id.reads)
    ELSE IF d # "Ok"
    THEN DecryptResult(FALSE, None, Error(d, 0, None, None), id.log, id.reads)
    ELSE IF tried \cap ct.rcpts = {}
    THEN DecryptResult(FALSE, None, Error("NoMatchingIdentity", 0, None, None),
                       id.log, id.reads + cb)
    ELSE IF ~ct.payloadOk
    THEN DecryptResult(FALSE, None, Error("Io", 0, None, None),
                       id.log, id.reads + cb)
    ELSE DecryptResult(TRUE, Some(ct.body), NoError, id.log, id.reads + cb)

\* age.rs 159-178.  `io`: the streams read and write without failure.
encrypt(keys, installed, io) ==
    LET r == load_public_keys(keys, installed) IN
    IF ~r.ok
    THEN [ok |-> FALSE, val |-> None, err |-> r.err]
    ELSE IF r.val = <<>>
    THEN [ok |-> FALSE, val |-> None,
          err |-> Error("CouldNotLoadKeys", 0, None, None)]
    ELSE IF ~io
    THEN [ok |-> FALSE, val |-> None, err |-> Error("Io", 0, None, None)]
    ELSE [ok |-> TRUE,
          val |-> Some(Ciphertext("box",
                     UNION {{r.val[i].strings[j].id :
                                j \in 1..Len(r.val[i].strings)} :
                            i \in 1..Len(r.val)}, TRUE)),
          err |-> NoError]

(* ------------------------------ the process --------------------------- *)
VARIABLES
    pc,                \* position in main: index into MainSteps, 0 = exited with an error
    passphrase_getter, \* args.passphrase_getter: the -g argument (Option)
    getterEnv,         \* AGE_PASSPHRASE_GETTER (Option)
    cfgLoads,          \* whether AppConfig::load succeeds
    passphraseCfg,     \* the keys of the [passphrase] table
    cred0,             \* AGE_PASSPHRASE when the process started (Option)
    credential,        \* AGE_PASSPHRASE, the Credential (Option)
    getter,            \* what resolve_passphrase did
    credLog,           \* the writes and reads of AGE_PASSPHRASE, in order
    op,                \* the call of age.rs the command made
    ret                \* and its result

vars == <<pc, passphrase_getter, getterEnv, cfgLoads, passphraseCfg, cred0,
          credential, getter, credLog, op, ret>>
inputs == <<passphrase_getter, getterEnv, cfgLoads, passphraseCfg, cred0>>

\* main.rs 21-24: resolve_passphrase, then run.
MainStepsRunFirst == <<"run", "resolve_passphrase">>
MainSteps == <<"resolve_passphrase", "run">>
At(step) == pc \in DOMAIN MainSteps /\ MainSteps[pc] = step
Exited == 0

GetterKeys == {"sops", "vault"}
NotCalled ==
    [called |-> FALSE, ok |-> TRUE, key |-> None, source |-> None,
     ran |-> FALSE, exec |-> NoExec, publish |-> None, err |-> NoError]
NoCiphertext == Ciphertext("none", {}, TRUE)
NoOp ==
    [name |-> "none", identities |-> <<>>, ct |-> NoCiphertext, keys |-> <<>>,
     installed |-> {}, cred |-> None]
NoRet == [ok |-> TRUE, val |-> None, err |-> NoError]

Init ==
    /\ pc = 1
    /\ passphrase_getter \in {None} \cup {Some(k) : k \in GetterKeys \cup {""}}
    /\ getterEnv \in {None} \cup {Some(k) : k \in GetterKeys \cup {""}}
    /\ cfgLoads \in BOOLEAN
    /\ passphraseCfg \in SUBSET GetterKeys
    /\ cfgLoads = FALSE => passphraseCfg = {}
    /\ cred0 \in Credentials
    /\ credential = cred0
    /\ getter = NotCalled
    /\ credLog = <<>>
    /\ op = NoOp
    /\ ret = NoRet

\* main.rs 21, with 47-150: the whole call, set_var (line 147) included.
ResolvePassphrase ==
    /\ At("resolve_passphrase")
    /\ \E exec \in Execs :
        LET r == resolve_passphrase(passphrase_getter, getterEnv, cfgLoads,
                                    passphraseCfg, exec) IN
        /\ getter' = r
        /\ credential' = IF r.publish # None THEN r.publish ELSE credential
        /\ credLog' = IF r.publish # None THEN Append(credLog, "write") ELSE credLog
        /\ pc' = IF r.ok THEN pc + 1 ELSE Exited
    /\ UNCHANGED <<inputs, op, ret>>

Reads(n) == [i \in 1..n |-> "read"]

\* The calls a command makes (run, main.rs 24, is where they start).
\* a call of decrypt (age.rs 57-93)
Decrypt(identities, ct) ==
    /\ \E asks \in BOOLEAN :
        LET r == decrypt(identities, ct, credential, asks) IN
        /\ ret' = r
        /\ credLog' = credLog \o Reads(r.reads)
    /\ op' = [NoOp EXCEPT !.name = "decrypt", !.identities = identities,
                          !.ct = ct, !.cred = credential]
    /\ pc' = pc + 1
    /\ UNCHANGED <<inputs, credential, getter>>

\* a call of validate_identity (age.rs 212-272)
ValidateIdentity(f) ==
    /\ LET r == validate_identity(1, f, credential) IN
        /\ ret' = r
        /\ credLog' = credLog \o Reads(r.reads)
    /\ op' = [NoOp EXCEPT !.name = "validate_identity", !.identities = <<f>>,
                          !.cred = credential]
    /\ pc' = pc + 1
    /\ UNCHANGED <<inputs, credential, getter>>

\* a call of encrypt (age.rs 159-178)
Encrypt(keys) ==
    /\ \E installed \in SUBSET PluginNames, io \in BOOLEAN :
        /\ ret' = encrypt(keys, installed, io)
        /\ op' = [NoOp EXCEPT !.name = "encrypt", !.keys = keys,
                              !.installed = installed, !.cred = credential]
    /\ pc' = pc + 1
    /\ UNCHANGED <<inputs, credential, getter, credLog>>

\* a call of validate_public_keys, and so of load_public_keys
\* (age.rs 180-207); ret keeps what load_public_keys returned
ValidatePublicKeys(keys) ==
    /\ \E installed \in SUBSET PluginNames :
        /\ ret' = load_public_keys(keys, installed)
        /\ op' = [NoOp EXCEPT !.name = "load_public_keys", !.keys = keys,
                              !.installed = installed, !.cred = credential]
    /\ pc' = pc + 1
    /\ UNCHANGED <<inputs, credential, getter, credLog>>

\* The identity files and recipients a repository is configured with, for
\* the runs of the whole process.
PlainFile(ids) == IdFile("plain", Plain(ids, TRUE), NoContent)
WrappedFile(ids) == IdFile("scryptbox", NoContent, Plain(ids, TRUE))
RepoIdentities ==
    {<<>>, <<PlainFile(<<"k1">>)>>, <<WrappedFile(<<"k1">>)>>,
     <<PlainFile(<<"plug">>), WrappedFile(<<"k1">>)>>}
RepoRecipients ==
    {<<RecipientString("x25519", "", "k1")>>,
     <<RecipientString("plugin", "yubikey", "y1"),
       RecipientString("plugin", "yubikey", "y2")>>}

CmdDecrypt ==
    /\ At("run")
    /\ \E ids \in RepoIdentities, ct \in Ciphertexts : Decrypt(ids, ct)
CmdValidateIdentity ==
    /\ At("run")
    /\ \E ids \in RepoIdentities : \E i \in 1..Len(ids) : ValidateIdentity(ids[i])
CmdEncrypt ==
    /\ At("run")
    /\ \E keys \in RepoRecipients : Encrypt(keys)
CmdValidatePublicKeys ==
    /\ At("run")
    /\ \E keys \in RepoRecipients : ValidatePublicKeys(keys)

Next ==
    \/ ResolvePassphrase
    \/ CmdDecrypt
    \/ CmdValidateIdentity
    \/ CmdEncrypt
    \/ CmdValidatePublicKeys

\* One run of the process.
Spec == Init /\ [][Next]_vars

(* --------------- the functions of age.rs on every input --------------- *)
\* The process after a resolve_passphrase that had nothing to do (an empty
\* AGE_PASSPHRASE_GETTER), with AGE_PASSPHRASE as the environment gave it.
InitAge ==
    /\ pc = 2
    /\ passphrase_getter = None
    /\ getterEnv = Some("")
    /\ cfgLoads = TRUE
    /\ passphraseCfg = {}
    /\ cred0 \in Credentials
    /\ credential = cred0
    /\ getter = resolve_passphrase(None, Some(""), TRUE, {}, NoExec)
    /\ credLog = <<>>
    /\ op = NoOp
    /\ ret = NoRet

ApiDecrypt ==
    /\ At("run")
    /\ \E ids \in SeqsUpTo(Files, MaxPaths), ct \in Ciphertexts : Decrypt(ids, ct)
ApiValidateIdentity ==
    /\ At("run")
    /\ \E f \in Files : ValidateIdentity(f)
ApiEncrypt ==
    /\ At("run")
    /\ \E keys \in SeqsUpTo(RecipientStrings, MaxKeys) : Encrypt(keys)
ApiValidatePublicKeys ==
    /\ At("run")
    /\ \E keys \in SeqsUpTo(RecipientStrings, MaxKeys) : ValidatePublicKeys(keys)

NextAge ==
    \/ ApiDecrypt
    \/ ApiValidateIdentity
    \/ ApiEncrypt
    \/ ApiValidatePublicKeys

SpecAge == InitAge /\ [][NextAge]_vars

(* ------------------------------- claims ------------------------------- *)
Written == \E i \in DOMAIN credLog : credLog[i] = "write"

\* C1: once the configuration is loaded, the chosen getter key is the
\* explicit -g key if there is one; otherwise the value of
\* AGE_PASSPHRASE_GETTER if it is set and not empty; otherwise none if it is
\* set and empty; otherwise "sops" if [passphrase] has it, and none if not.
\* When no key is chosen the call succeeds, runs no command and leaves the
\* Credential as it was.
C1_GetterPriority ==
    (getter.called /\ cfgLoads) =>
        /\ getter.key =
              IF passphrase_getter # None THEN passphrase_getter
              ELSE IF getterEnv # None /\ Unwrap(getterEnv) # "" THEN getterEnv
              ELSE IF getterEnv # None THEN None
              ELSE IF "sops" \in passphraseCfg THEN Some("sops")
              ELSE None
        /\ getter.key = None =>
              /\ getter.ok
              /\ ~getter.ran
              /\ getter.exec = NoExec
              /\ ~Written
              /\ credential = cred0

\* C1 witness: an explicit key wins over a non-empty environment value and a
\* present implicit key.
C1_Witness ==
    /\ getter.called
    /\ passphrase_getter = Some("vault")
    /\ getterEnv = Some("sops")
    /\ "sops" \in passphraseCfg
    /\ getter.key = Some("vault")

\* C6: a chosen getter key that [passphrase] does not have makes
\* resolve_passphrase fail with the configuration error that names the key
\* and the source that triggered it; no command is run and the Credential is
\* left as it was.
C6_MissingKeyIsFatal ==
    (getter.called /\ getter.key # None /\ Unwrap(getter.key) \notin passphraseCfg) =>
        /\ ~getter.ok
        /\ pc = Exited
        /\ getter.err.msg = "GetterNotFound"
        /\ getter.err.key = getter.key
        /\ getter.err.source = getter.source
        /\ getter.source =
              IF passphrase_getter # None THEN Some("Arg")
              ELSE IF getterEnv # None THEN Some("EnvVar")
              ELSE Some("ImplicitSops")
        /\ ~getter.ran
        /\ getter.exec = NoExec
        /\ ~Written
        /\ credential = cred0

\* C6 witness: the environment names a key that is missing while the
\* implicit key is present.
C6_Witness ==
    /\ getter.called
    /\ getter.key = Some("vault")
    /\ getter.source = Some("EnvVar")
    /\ passphraseCfg = {"sops"}
    /\ ~getter.ok

C9_WriteOnceBeforeReads ==
    /\ Cardinality({i \in DOMAIN credLog : credLog[i] = "write"}) <= 1
    /\ \A i \in DOMAIN credLog, j \in DOMAIN credLog :
          (credLog[i] = "write" /\ credLog[j] = "read") => i < j
    /\ op.name # "none" => (getter.called /\ getter.ok)
    /\ ~getter.called => (credLog = <<>> /\ credential = cred0)
    /\ getter.called =>
          credential = IF getter.publish # None THEN getter.publish ELSE cred0

\* C9 witness: a published Credential read by a command that loads a
\* passphrase-wrapped identity file.
C9_Witness ==
    /\ credLog = <<"write", "read">>
    /\ op.name = "decrypt"
    /\ ret.ok

\* C2: decrypt returns Ok(None), never an error, for input that is empty,
\* truncated or not a container, whatever the identity paths and the
\* Credential.
C2_NotContainerIsAbsent ==
    (op.name = "decrypt" /\ op.ct.kind \in NotContainerKinds) =>
        (ret.ok /\ ret.val = None)

\* C3: when load_public_keys returns a list, it holds one plugin recipient
\* object for every distinct plugin name among the plugin recipient strings,
\* and one object for every X25519 or SSH string.
C3_OneObjectPerPluginName ==
    (op.name = "load_public_keys" /\ ret.ok) =>
        /\ Cardinality({i \in DOMAIN ret.val : ret.val[i].variant = "plugin"})
              = Cardinality({op.keys[i].plugin :
                    i \in {k \in DOMAIN op.keys : op.keys[k].kind = "plugin"}})
        /\ Cardinality({i \in DOMAIN ret.val : ret.val[i].variant # "plugin"})
              = Cardinality({k \in DOMAIN op.keys :
                                op.keys[k].kind \in {"x25519", "ssh"}})

\* C8: load_public_keys gives every string the variant of the first parser
\* that accepts it; when a string matches no parser the call fails with the
\* "invalid recipient" error that names the first such string, and returns
\* no list.
C8_InvalidRecipientNamed ==
    op.name = "load_public_keys" =>
        LET bad == {k \in DOMAIN op.keys :
                       op.keys[k].kind \notin {"x25519", "ssh", "plugin"}}
        IN  IF bad # {}
            THEN /\ ~ret.ok
                 /\ ret.val = <<>>
                 /\ ret.err.msg = "InvalidRecipient"
                 /\ \E k \in bad :
                       /\ \A m \in bad : k <= m
                       /\ ret.err.recipient = Some(op.keys[k])
            ELSE ret.ok =>
                 \A i \in DOMAIN ret.val :
                    \A j \in DOMAIN ret.val[i].strings :
                       ret.val[i].strings[j].kind = ret.val[i].variant

\* C4: while load_identities processes a path whose file parses as a
\* plaintext identity file it does not read AGE_PASSPHRASE, and the outcome
\* for that path is the one it has with any other value of the Credential.
C4_PlaintextNeverReadsCredential ==
    op.name = "decrypt" =>
        \A i \in DOMAIN ret.load :
            op.identities[i].kind = "plain" =>
                /\ ret.load[i].reads = 0
                /\ \A c \in Credentials :
                      load_path(i, op.identities[i], c) = ret.load[i]

\* C4 witness: a plaintext identity file loaded with the Credential unset.
C4_Witness ==
    /\ op.name = "decrypt"
    /\ op.cred = None
    /\ Len(op.identities) = 1
    /\ op.identities[1].kind = "plain"
    /\ op.identities[1].content.ids = <<"k1">>
    /\ Len(ret.load) = 1
    /\ ret.load[1].ok
    /\ ret.load[1].ids = <<"k1">>

\* C5: for a passphrase-encrypted identity file load_identities fails with
\* the credential-required error naming the path when AGE_PASSPHRASE is
\* unset, fails with another error when AGE_PASSPHRASE is not the file's
\* passphrase, and with the file's passphrase yields the identities of the
\* wrapped identity file.
C5_WrappedIdentityOutcomes ==
    op.name = "decrypt" =>
        \A i \in DOMAIN ret.load :
            LET f == op.identities[i]
                r == ret.load[i]
            IN  f.kind = "scryptbox" =>
                  /\ op.cred = None =>
                        /\ ~r.ok
                        /\ r.err.msg = "PassphraseNotSet"
                        /\ r.err.path = i
                  /\ (op.cred # None /\ Unwrap(op.cred) # f.pass) =>
                        /\ ~r.ok
                        /\ r.err.msg = "DecryptionFailed"
                  /\ (op.cred = Some(f.pass) /\ f.inner.kind = "plain"
                        /\ f.inner.pluginsOk) =>
                        /\ r.ok
                        /\ r.ids = f.inner.ids

\* C5 witness: a passphrase-wrapped identity file opened with its
\* passphrase.
C5_Witness ==
    /\ op.name = "decrypt"
    /\ op.cred = Some(FilePass)
    /\ op.identities = <<WrappedFile(<<"k1">>)>>
    /\ Len(ret.load) = 1
    /\ ret.load[1].ok
    /\ ret.load[1].ids = <<"k1">>

\* C10: validate_identity succeeds without a note exactly when
\* load_identities on that one path succeeds, and fails exactly when it
\* fails, except that for a passphrase-encrypted container with
\* AGE_PASSPHRASE unset it returns a note where load_identities fails.
C10_ValidateAgreesWithLoad ==
    op.name = "validate_identity" =>
        LET f == op.identities[1]
            l == load_identities(<<f>>, op.cred)
        IN  IF f.kind = "scryptbox" /\ op.cred = None
            THEN /\ ret.ok
                 /\ ret.val # None
                 /\ ~l.ok
                 /\ l.err.msg = "PassphraseNotSet"
            ELSE /\ ret.ok <=> l.ok
                 /\ ret.ok => ret.val = None

\* C10 witness: a passphrase-wrapped file and a wrong Credential: both fail.
C10_Witness ==
    /\ op.name = "validate_identity"
    /\ op.identities[1].kind = "scryptbox"
    /\ op.cred = Some(<<"a", "a">>)
    /\ ~ret.ok
    /\ ret.err.msg = "FailedToDecryptWithPassphrase"

====
